---- MODULE Spec2Model ----
(***************************************************************************)
(* A model of the symbolic ADF solver: the variable maps and the symbolic  *)
(* encoding (adf_symbolic.rs), the interpretation solver                   *)
(* (adf_interpretation_solver.rs) and the two-valued model sets            *)
(* (model_set/two_valued.rs).  Spec runs one solver operation and          *)
(* SpecTwoCalls one after another; SpecSets applies one model-set          *)
(* operation and SpecSetSequences sequences of them; SpecEncoding          *)
(* evaluates the encodings of an ADF and SpecMaps builds the variable      *)
(* maps.                                                                   *)
(*                                                                         *)
(* A BDD of the underlying library is a reduced ordered decision diagram,  *)
(* which is canonical: it is determined by the Boolean function it denotes *)
(* and mentions exactly the variables that function depends on.  A BDD is  *)
(* therefore the record [sup, sat]: sup is the set of variable ids the     *)
(* diagram mentions, sat the set of satisfying valuations over sup, each   *)
(* valuation being the set of the variables it sets to one.                *)
(***************************************************************************)
EXTENDS Integers, Sequences, FiniteSets, TLC

\* The largest number of statements of an ADF that the solver is run on and
\* whose model sets are all enumerated.
MaxStatements == 2

\* The largest number of statements of an ADF whose model sets are counted;
\* above MaxStatements only the sets of the scenarios are taken.
MaxCountedStatements == 5

\* The largest number of models of the second operand of a set operation.
MaxOperandModels == 2

\* The deepest nesting of a condition expression.
MaxDepth == 2

\* The largest number of statements of a variable map that is built from
\* statements of any index.
MaxMapStatements == 3

\* index << 2 on a u32 keeps the low 30 bits of the index: 2^30.
TwoPow30 == 1073741824

\* Half of it: an index below 2^29 has a variable id below 2^31.
TwoPow29 == 536870912

\* index << 2 in 32 bits.
ShiftLeft2(index) == (index % TwoPow30) * 4

(***************************** the BDD library *****************************)

BddTrue == [sup |-> {}, sat |-> {{}}]

BddFalse == [sup |-> {}, sat |-> {}]

\* The valuations over V (a superset of b.sup) that satisfy b.
Expand(b, V) == {a \in SUBSET V : (a \cap b.sup) \in b.sat}

\* The diagram of the function whose satisfying valuations over V are S:
\* variables the function does not depend on have no node.
Reduced(V, S) ==
    LET ess == {v \in V : \E a \in S : ((a \ {v}) \cup ({v} \ a)) \notin S}
    IN  [sup |-> ess, sat |-> {a \cap ess : a \in S}]

BddLiteral(var, polarity) ==
    [sup |-> {var}, sat |-> IF polarity THEN {{var}} ELSE {{}}]

BddNot(a) == [sup |-> a.sup, sat |-> (SUBSET a.sup) \ a.sat]

BddAnd(a, b) ==
    LET V == a.sup \cup b.sup
    IN  Reduced(V, Expand(a, V) \cap Expand(b, V))

BddOr(a, b) ==
    LET V == a.sup \cup b.sup
    IN  Reduced(V, Expand(a, V) \cup Expand(b, V))

BddXor(a, b) ==
    LET V == a.sup \cup b.sup
    IN  Reduced(V, {x \in SUBSET V :
                      ((x \cap a.sup) \in a.sat) # ((x \cap b.sup) \in b.sat)})

BddIff(a, b) ==
    LET V == a.sup \cup b.sup
    IN  Reduced(V, {x \in SUBSET V :
                      ((x \cap a.sup) \in a.sat) = ((x \cap b.sup) \in b.sat)})

BddImplies(a, b) ==
    LET V == a.sup \cup b.sup
    IN  Reduced(V, {x \in SUBSET V :
                      ((x \cap a.sup) \in a.sat) => ((x \cap b.sup) \in b.sat)})

BddExists(a, vars) == Reduced(a.sup \ vars, {x \ vars : x \in a.sat})

\* The fused (a AND b) followed by the elimination of vars.
BddBinaryOpWithExistsAnd(a, b, vars) == BddExists(BddAnd(a, b), vars)

BddIsFalse(a) == a.sat = {}

\* The value of the diagram under a valuation of (at least) its variables.
BddEval(a, valuation) == (valuation \cap a.sup) \in a.sat

\* The valuations of vars with exactly k ones.
BddSatExactlyK(k, vars) ==
    Reduced(vars, {x \in SUBSET vars : Cardinality(x) = k})

\* The nodes of the diagram under the order of the variable ids: one decision
\* node for every distinct cofactor, over the variables before v, that depends
\* on v, and the terminal nodes it reaches.
BddNodeCount(a) ==
    LET Cofactor(v, low) ==
            {x \ {u \in a.sup : u < v} :
                x \in {y \in a.sat : {u \in y : u < v} = low}}
        Depends(c, v) == \E x \in c : ((x \ {v}) \cup ({v} \ x)) \notin c
        Decision(v) ==
            {c \in {Cofactor(v, low) : low \in SUBSET {u \in a.sup : u < v}} :
                Depends(c, v)}
        nodes == UNION {{<<v, c>> : c \in Decision(v)} : v \in a.sup}
    IN  Cardinality(nodes) + (IF a.sup = {} THEN 1 ELSE 2)

(************************* condition expressions ***************************)

Constant(value) ==
    [op |-> "constant", val |-> IF value THEN 1 ELSE 0, args |-> <<>>]

StatementRef(s) == [op |-> "statement", val |-> s, args |-> <<>>]

Negation(e) == [op |-> "negation", val |-> 0, args |-> <<e>>]

And(es) == [op |-> "and", val |-> 0, args |-> es]

Or(es) == [op |-> "or", val |-> 0, args |-> es]

Implication(l, r) == [op |-> "implication", val |-> 0, args |-> <<l, r>>]

Equivalence(l, r) == [op |-> "equivalence", val |-> 0, args |-> <<l, r>>]

ExclusiveOr(l, r) == [op |-> "exclusive_or", val |-> 0, args |-> <<l, r>>]

\* A statement without a condition.
Free == [op |-> "free", val |-> 0, args |-> <<>>]

\* The truth value of an expression under a two-valued assignment alpha, the
\* set of the statements that are true.
RECURSIVE evaluate(_, _)
evaluate(e, alpha) ==
    CASE e.op = "constant"     -> e.val = 1
      [] e.op = "statement"    -> e.val \in alpha
      [] e.op = "negation"     -> ~evaluate(e.args[1], alpha)
      [] e.op = "and"          ->
            \A k \in 1..Len(e.args) : evaluate(e.args[k], alpha)
      [] e.op = "or"           ->
            \E k \in 1..Len(e.args) : evaluate(e.args[k], alpha)
      [] e.op = "implication"  ->
            evaluate(e.args[1], alpha) => evaluate(e.args[2], alpha)
      [] e.op = "equivalence"  ->
            evaluate(e.args[1], alpha) = evaluate(e.args[2], alpha)
      [] e.op = "exclusive_or" ->
            evaluate(e.args[1], alpha) # evaluate(e.args[2], alpha)

(***************************** variable maps *******************************)

\* DirectMap::new: statement -> index << 2, in 32 bits.
DirectMapNew(statements) ==
    [s \in statements |-> ShiftLeft2(s)]

\* DualMap::new: statement -> ((index << 2) + 1, (index << 2) + 2).
DualMapNew(statements) ==
    [s \in statements |->
        <<ShiftLeft2(s) + 1, ShiftLeft2(s) + 2>>]

\* The statements of a map, in statement order.
RECURSIVE SortedSeq(_)
SortedSeq(S) ==
    IF S = {} THEN <<>>
    ELSE LET m == CHOOSE x \in S : \A y \in S : x <= y
         IN  <<m>> \o SortedSeq(S \ {m})

MapStatements(map) == SortedSeq(DOMAIN map)

\* DirectMap::variable_ids: the direct variables, in statement order.
VariableIds(direct_map) ==
    [k \in 1..Len(MapStatements(direct_map)) |->
        direct_map[MapStatements(direct_map)[k]]]

MakeLiteral(direct_map, s, polarity) == BddLiteral(direct_map[s], polarity)

MakePositiveLiteral(dual_map, s, polarity) ==
    BddLiteral(dual_map[s][1], polarity)

MakeNegativeLiteral(dual_map, s, polarity) ==
    BddLiteral(dual_map[s][2], polarity)

\* The dual variables of a map.
DualVariables(dual_map) ==
    UNION {{dual_map[s][1], dual_map[s][2]} : s \in DOMAIN dual_map}

\* The dual variables of statement s that v sets.
ValueIn(dual_map, v, s) == v \cap {dual_map[s][1], dual_map[s][2]}

\* The three-valued interpretations: every statement has t, f or both set.
Interpretations(dual_map) ==
    {v \in SUBSET DualVariables(dual_map) :
        \A s \in DOMAIN dual_map : ValueIn(dual_map, v, s) # {}}

(************************ symbolic ADF construction ************************)

\* The structural fold of an expression into a BDD over the direct variables.
RECURSIVE expression_to_bdd(_, _), FoldAnd(_, _, _), FoldOr(_, _, _)
expression_to_bdd(expr, var_map) ==
    CASE expr.op = "constant"     ->
            IF expr.val = 1 THEN BddTrue ELSE BddFalse
      [] expr.op = "statement"    -> BddLiteral(var_map[expr.val], TRUE)
      [] expr.op = "negation"     ->
            BddNot(expression_to_bdd(expr.args[1], var_map))
      [] expr.op = "and"          -> FoldAnd(expr.args, Len(expr.args), var_map)
      [] expr.op = "or"           -> FoldOr(expr.args, Len(expr.args), var_map)
      [] expr.op = "implication"  ->
            BddOr(BddNot(expression_to_bdd(expr.args[1], var_map)),
                  expression_to_bdd(expr.args[2], var_map))
      [] expr.op = "equivalence"  ->
            BddIff(expression_to_bdd(expr.args[1], var_map),
                   expression_to_bdd(expr.args[2], var_map))
      [] expr.op = "exclusive_or" ->
            BddXor(expression_to_bdd(expr.args[1], var_map),
                   expression_to_bdd(expr.args[2], var_map))

\* A fold of the operands of Or that starts from true.
RECURSIVE FoldOrFromTrue(_, _, _)
FoldOrFromTrue(operands, k, var_map) ==
    IF k = 0 THEN BddTrue
    ELSE BddOr(FoldOrFromTrue(operands, k - 1, var_map),
               expression_to_bdd(operands[k], var_map))

\* operands.iter().fold(Bdd::new_true(), |acc, op| acc.and(..)) over the
\* first k operands.
FoldAnd(operands, k, var_map) ==
    IF k = 0 THEN BddTrue
    ELSE BddAnd(FoldAnd(operands, k - 1, var_map),
                expression_to_bdd(operands[k], var_map))

FoldOr(operands, k, var_map) ==
    IF k = 0 THEN BddFalse
    ELSE BddOr(FoldOr(operands, k - 1, var_map),
               expression_to_bdd(operands[k], var_map))

\* An elimination step that leaves out (not v) => f.
DualStepPositiveOnly(result, var, t_var, f_var) ==
    LET state_implies_t ==
            BddOr(BddLiteral(var, FALSE), BddLiteral(t_var, TRUE))
    IN  BddExists(BddAnd(result, state_implies_t), {var})

\* One elimination step of direct_to_dual_encoding for a statement.
DualStep(result, var, t_var, f_var) ==
    LET state_implies_t ==
            BddOr(BddLiteral(var, FALSE), BddLiteral(t_var, TRUE))
        not_state_implies_f ==
            BddOr(BddLiteral(var, TRUE), BddLiteral(f_var, TRUE))
        is_in_space == BddAnd(state_implies_t, not_state_implies_f)
    IN  BddExists(BddAnd(result, is_in_space), {var})

\* The loop of direct_to_dual_encoding over statements[1..k] in reverse:
\* statements[k] is eliminated first, statements[1] last.
RECURSIVE DualLoop(_, _, _, _, _)
DualLoop(function, statements, k, direct_map, dual_map) ==
    IF k = 0 THEN function
    ELSE DualLoop(DualStep(function, direct_map[statements[k]],
                           dual_map[statements[k]][1],
                           dual_map[statements[k]][2]),
                  statements, k - 1, direct_map, dual_map)

direct_to_dual_encoding(function, direct_map, dual_map) ==
    DualLoop(function, MapStatements(direct_map),
             Len(MapStatements(direct_map)), direct_map, dual_map)

\* A validity BDD in which every statement has exactly one of (t, f) set.
RECURSIVE ValidLoopExactlyOne(_, _, _)
ValidLoopExactlyOne(statements, k, dual_map) ==
    IF k = 0 THEN BddTrue
    ELSE BddAnd(ValidLoopExactlyOne(statements, k - 1, dual_map),
                BddXor(BddLiteral(dual_map[statements[k]][1], TRUE),
                       BddLiteral(dual_map[statements[k]][2], TRUE)))

\* DualEncoding::valid: every statement has at least one of (t, f) set.
RECURSIVE ValidLoop(_, _, _)
ValidLoop(statements, k, dual_map) ==
    IF k = 0 THEN BddTrue
    ELSE BddAnd(ValidLoop(statements, k - 1, dual_map),
                BddOr(BddLiteral(dual_map[statements[k]][1], TRUE),
                      BddLiteral(dual_map[statements[k]][2], TRUE)))

\* The statements of an ADF that have a condition.
Conditional(adf) == {s \in adf.statements : adf.condition[s] # Free}

\* SymbolicAdf::from(&ExpressionAdf): both encodings of an ADF.
SymbolicAdfFrom(adf) ==
    LET direct_map == DirectMapNew(adf.statements)
        dual_map == DualMapNew(adf.statements)
        direct_conditions ==
            [s \in Conditional(adf) |->
                expression_to_bdd(adf.condition[s], direct_map)]
        dual_conditions ==
            [s \in Conditional(adf) |->
                <<direct_to_dual_encoding(direct_conditions[s],
                                          direct_map, dual_map),
                  direct_to_dual_encoding(BddNot(direct_conditions[s]),
                                          direct_map, dual_map)>>]
    IN  [direct_encoding |->
            [var_map |-> direct_map, conditions |-> direct_conditions],
         dual_encoding |->
            [var_map |-> dual_map, conditions |-> dual_conditions,
             valid |-> ValidLoop(SortedSeq(adf.statements),
                                 Cardinality(adf.statements), dual_map)]]

(******************************* the state *********************************)

VARIABLES
    adf,          \* the expression ADF: [statements, condition]
    bdds,         \* the AdfBdds instances built from it, by instance id
    cancelled,    \* the process-wide cancellation flag
    call,         \* the solver operation in progress
    pc,           \* where that operation is
    idx,          \* the position of the statement loop (1-based)
    constraints,  \* fixed_point_constraints / trap_constraints
    to_merge,     \* the working list of the conjunction solver
    outcome,      \* "none", "ok", "cancelled" or "panic"
    model_set,    \* the model set returned, or NoSet
    flag_at_call, \* history: the cancellation flag when the call was made
    set_a,        \* a two-valued model set
    set_b,        \* another one, possibly of another encoding instance
    set_op,       \* the model-set operation applied: [name, left, right, k]
    set_status,   \* "none", "ok" or "encoding_mismatch"
    set_r,        \* the model set the operation returned, or NoSet
    set_count,    \* the number a count returned
    probe         \* the last evaluation of an encoding, or NoProbe

solver_vars ==
    <<cancelled, call, pc, idx, constraints, to_merge, outcome, model_set,
      flag_at_call>>

sets_vars == <<set_a, set_b, set_op, set_status, set_r, set_count>>

vars == <<adf, bdds, solver_vars, sets_vars, probe>>

NoSet == [symbolic_set |-> BddFalse, encoding |-> 0, kind |-> "none"]

NoOp == [name |-> "none", left |-> NoSet, right |-> NoSet, k |-> 0]

\* No encoding has been evaluated.
NoProbe == [name |-> "none", statement |-> 0, models |-> {}]

\* No model-set operation is in progress.
SetsIdle ==
    /\ set_a = NoSet
    /\ set_b = NoSet
    /\ set_op = NoOp
    /\ set_status = "none"
    /\ set_r = NoSet
    /\ set_count = 0

\* No solver operation is in progress.
SolverIdle ==
    /\ call = "none"
    /\ pc = "idle"
    /\ idx = 0
    /\ constraints = <<>>
    /\ to_merge = <<>>
    /\ outcome = "none"
    /\ model_set = NoSet
    /\ flag_at_call = FALSE

(************************** the expression ADFs ****************************)

\* The statement after s, cyclically.
NextStatement(S, s) ==
    IF \E t \in S : t > s
    THEN CHOOSE t \in S : t > s /\ \A u \in S : u > s => t <= u
    ELSE CHOOSE t \in S : \A u \in S : t <= u

\* The conditions statement s may have: none, a constant, a statement or its
\* negation, or one binary node of each kind over s and the next statement.
Conditions(S, s) ==
    LET l == StatementRef(s)
        r == StatementRef(NextStatement(S, s))
    IN  {Free, Constant(TRUE), Constant(FALSE)}
        \cup {StatementRef(t) : t \in S}
        \cup {Negation(StatementRef(t)) : t \in S}
        \cup {And(<<l, r>>), Or(<<l, r>>), Implication(l, r),
              Equivalence(l, r), ExclusiveOr(l, r)}

AdfsOver(S) ==
    {[statements |-> S, condition |-> c] :
        c \in {f \in [S -> UNION {Conditions(S, s) : s \in S}] :
                  \A s \in S : f[s] \in Conditions(S, s)}}

Adfs == UNION {AdfsOver(0..(n - 1)) : n \in 0..MaxStatements}

(**************************** the model sets *******************************)

\* DirectEncoding::is_direct_encoded: the BDD mentions direct variables only.
IsDirectEncoded(encoding, bdd) ==
    bdd.sup \subseteq {encoding.var_map[s] : s \in DOMAIN encoding.var_map}

\* What a failed assertion leaves: no set.
Panicked == [symbolic_set |-> BddFalse, encoding |-> 0, kind |-> "panic"]

\* ModelSetTwoValued::new: the set references the direct encoding of instance
\* id; a BDD that is not direct encoded fails the assertion.
ModelSetTwoValuedNew(symbolic_set, id) ==
    IF IsDirectEncoded(bdds[id].direct_encoding, symbolic_set)
    THEN [symbolic_set |-> symbolic_set, encoding |-> id,
          kind |-> "two_valued"]
    ELSE Panicked

\* AdfBdds::mk_two_valued_set: a set over the instance's own direct encoding.
mk_two_valued_set(symbolic_set, id) == ModelSetTwoValuedNew(symbolic_set, id)

mk_three_valued_set(symbolic_set, id) ==
    [symbolic_set |-> symbolic_set, encoding |-> id, kind |-> "three_valued"]

\* What the failed assertion of a binary operation leaves: no set.
EncodingMismatch ==
    [symbolic_set |-> BddFalse, encoding |-> 0, kind |-> "encoding_mismatch"]

\* An intersection that compares the encodings by value.
IntersectByValue(self, other) ==
    IF bdds[self.encoding].direct_encoding
            = bdds[other.encoding].direct_encoding
    THEN [symbolic_set |-> BddAnd(self.symbolic_set, other.symbolic_set),
          encoding |-> self.encoding, kind |-> "two_valued"]
    ELSE EncodingMismatch

\* An intersection that drops the models of other instead of keeping them.
IntersectNegated(self, other) ==
    IF self.encoding = other.encoding
    THEN [symbolic_set |->
              BddAnd(self.symbolic_set, BddNot(other.symbolic_set)),
          encoding |-> self.encoding, kind |-> "two_valued"]
    ELSE EncodingMismatch

\* ModelSetTwoValued::intersect; the assertion is Arc::ptr_eq, the identity
\* of the two encoding instances.
intersect(self, other) ==
    IF self.encoding = other.encoding
    THEN [symbolic_set |-> BddAnd(self.symbolic_set, other.symbolic_set),
          encoding |-> self.encoding, kind |-> "two_valued"]
    ELSE EncodingMismatch

\* ModelSetTwoValued::union.
union(self, other) ==
    IF self.encoding = other.encoding
    THEN [symbolic_set |-> BddOr(self.symbolic_set, other.symbolic_set),
          encoding |-> self.encoding, kind |-> "two_valued"]
    ELSE EncodingMismatch

\* ModelSetTwoValued::minus.
minus(self, other) ==
    IF self.encoding = other.encoding
    THEN [symbolic_set |->
              BddAnd(self.symbolic_set, BddNot(other.symbolic_set)),
          encoding |-> self.encoding, kind |-> "two_valued"]
    ELSE EncodingMismatch

\* ModelSetTwoValued::is_empty.
is_empty(self) == BddIsFalse(self.symbolic_set)

\* #[derive(Clone)]: the same BDD and the same encoding instance.
Clone(self) ==
    [symbolic_set |-> self.symbolic_set, encoding |-> self.encoding,
     kind |-> self.kind]

\* DirectEncoding::count_direct_valuations: the satisfying valuations of the
\* diagram, times two for every direct variable it does not mention.
CountDirectValuations(encoding, bdd) ==
    Cardinality(bdd.sat)
        * 2^(Cardinality(DOMAIN encoding.var_map) - Cardinality(bdd.sup))

\* A count over the variables the BDD mentions only.
ModelCountOverSupport(self) == Cardinality(self.symbolic_set.sat)

\* ModelSetTwoValued::model_count.
model_count(self) ==
    CountDirectValuations(bdds[self.encoding].direct_encoding,
                          self.symbolic_set)

\* The valuations of vars with at most k ones.
MkAtMostKOneStatements(one_count, id) ==
    LET direct_vars == VariableIds(bdds[id].direct_encoding.var_map)
        ids == {direct_vars[k] : k \in DOMAIN direct_vars}
    IN  mk_two_valued_set(
            Reduced(ids, {x \in SUBSET ids : Cardinality(x) <= one_count}),
            id)

\* ModelSetTwoValued::mk_exactly_k_one_statements.
mk_exactly_k_one_statements(one_count, id) ==
    LET direct_vars == VariableIds(bdds[id].direct_encoding.var_map)
    IN  mk_two_valued_set(
            BddSatExactlyK(one_count,
                           {direct_vars[k] : k \in DOMAIN direct_vars}),
            id)

\* A loop body that selects var = true, so that it adds nothing.
ExtendStepSelectsTrue(result, var) ==
    LET lit == BddLiteral(var, TRUE)
        adds_true == BddAnd(BddBinaryOpWithExistsAnd(result, lit, {var}), lit)
    IN  IF ~BddIsFalse(adds_true) THEN BddOr(result, adds_true) ELSE result

\* A loop body that brings the variable back as the next variable id, which
\* is a dual variable.
ExtendStepOnDual(result, var) ==
    LET lit == BddLiteral(var + 1, TRUE)
        nlit == BddLiteral(var, FALSE)
        adds_true == BddAnd(BddBinaryOpWithExistsAnd(result, nlit, {var}), lit)
    IN  IF ~BddIsFalse(adds_true) THEN BddOr(result, adds_true) ELSE result

\* The body of the loop of extend_with_more_ones for one variable.
ExtendStep(result, var) ==
    LET lit == BddLiteral(var, TRUE)
        nlit == BddLiteral(var, FALSE)
        adds_true == BddAnd(BddBinaryOpWithExistsAnd(result, nlit, {var}), lit)
    IN  IF ~BddIsFalse(adds_true) THEN BddOr(result, adds_true) ELSE result

\* A loop in which every variable extends the original set, not the result
\* so far.
RECURSIVE ExtendFromOriginal(_, _, _)
ExtendFromOriginal(original, variable_ids, k) ==
    IF k = 0 THEN original
    ELSE BddOr(ExtendFromOriginal(original, variable_ids, k - 1),
               ExtendStep(original, variable_ids[k]))

\* The loop over variable_ids[1..k] in reverse order.
RECURSIVE ExtendLoop(_, _, _)
ExtendLoop(result, variable_ids, k) ==
    IF k = 0 THEN result
    ELSE ExtendLoop(ExtendStep(result, variable_ids[k]), variable_ids, k - 1)

\* ModelSetTwoValued::extend_with_more_ones.
extend_with_more_ones(self) ==
    LET variable_ids == VariableIds(bdds[self.encoding].direct_encoding.var_map)
    IN  [symbolic_set |->
              ExtendLoop(self.symbolic_set, variable_ids, Len(variable_ids)),
         encoding |-> self.encoding, kind |-> "two_valued"]

(************************ the conjunction solver ***************************)

\* The position of the smallest node count among those not excluded, the
\* earliest one on a tie.
SmallestIndex(counts, excluded) ==
    CHOOSE i \in (DOMAIN counts) \ excluded :
        \A j \in (DOMAIN counts) \ excluded :
            \/ counts[i] < counts[j]
            \/ counts[i] = counts[j] /\ i <= j

\* A reduction that inserts the smaller operand instead of the conjunction.
NaiveGreedyReduceKeepsOne(work) ==
    LET counts == [k \in DOMAIN work |-> BddNodeCount(work[k])]
        i == SmallestIndex(counts, {})
        j == SmallestIndex(counts, {i})
        keep == SortedSeq((DOMAIN work) \ {i, j})
    IN  Append([k \in 1..Len(keep) |-> work[keep[k]]], work[i])

\* The list after the BDDs at positions i and j are replaced by their
\* conjunction.
ReduceAt(work, i, j) ==
    LET keep == SortedSeq((DOMAIN work) \ {i, j})
    IN  Append([k \in 1..Len(keep) |-> work[keep[k]]],
               BddAnd(work[i], work[j]))

\* One reduction of NaiveGreedySolver: the two smallest BDDs are removed and
\* their conjunction is inserted.
NaiveGreedyReduce(work) ==
    LET counts == [k \in DOMAIN work |-> BddNodeCount(work[k])]
        i == SmallestIndex(counts, {})
        j == SmallestIndex(counts, {i})
    IN  ReduceAt(work, i, j)

(*********************** the interpretation solver *************************)

\* A constraint that only states statement => condition.
FixedPointConstraintOneWay(direct, statement) ==
    BddImplies(MakeLiteral(direct.var_map, statement, TRUE),
               direct.conditions[statement])

\* The fixed-point constraint of a statement with a condition:
\* statement <=> condition.
FixedPointConstraint(direct, statement) ==
    BddIff(MakeLiteral(direct.var_map, statement, TRUE),
           direct.conditions[statement])

\* Trap constraints whose second one repeats the first.
TrapConstraintsPositiveTwice(dual, statement) ==
    <<BddImplies(dual.conditions[statement][1],
                 MakePositiveLiteral(dual.var_map, statement, TRUE)),
      BddImplies(dual.conditions[statement][1],
                 MakePositiveLiteral(dual.var_map, statement, TRUE))>>

\* Trap constraints with the implications reversed: t => can_be_true and
\* f => can_be_false.
TrapConstraintsReversed(dual, statement) ==
    <<BddImplies(MakePositiveLiteral(dual.var_map, statement, TRUE),
                 dual.conditions[statement][1]),
      BddImplies(MakeNegativeLiteral(dual.var_map, statement, TRUE),
                 dual.conditions[statement][2])>>

\* Trap constraints with the two literals swapped: can_be_true => f and
\* can_be_false => t.
TrapConstraintsSwapped(dual, statement) ==
    <<BddImplies(dual.conditions[statement][1],
                 MakeNegativeLiteral(dual.var_map, statement, TRUE)),
      BddImplies(dual.conditions[statement][2],
                 MakePositiveLiteral(dual.var_map, statement, TRUE))>>

\* The two trap constraints of a statement with a condition:
\* can_be_true => t and can_be_false => f.
TrapConstraints(dual, statement) ==
    <<BddImplies(dual.conditions[statement][1],
                 MakePositiveLiteral(dual.var_map, statement, TRUE)),
      BddImplies(dual.conditions[statement][2],
                 MakeNegativeLiteral(dual.var_map, statement, TRUE))>>

\* The constraint list solve_admissible starts from.
InitialTrapConstraints(dual) == <<dual.valid>>

\* The cancellation flag is set by the environment while a call runs.
SetCancelled ==
    /\ pc \in {"loop", "conjunction"}
    /\ ~cancelled
    /\ cancelled' = TRUE
    /\ UNCHANGED <<sets_vars, probe, adf, bdds, call, pc, idx, constraints,
                   to_merge, outcome, model_set, flag_at_call>>

\* solve_complete_two_valued, up to its statement loop.
CallSolveCompleteTwoValued ==
    /\ pc = "idle"
    /\ call' = "complete_two_valued"
    /\ constraints' = <<>>
    /\ idx' = 1
    /\ pc' = "loop"
    /\ flag_at_call' = cancelled
    /\ UNCHANGED <<sets_vars, probe, adf, bdds, cancelled, to_merge, outcome,
                   model_set>>

\* solve_admissible, up to its statement loop.
CallSolveAdmissible ==
    /\ pc = "idle"
    /\ call' = "admissible"
    /\ constraints' = InitialTrapConstraints(bdds[1].dual_encoding)
    /\ idx' = 1
    /\ pc' = "loop"
    /\ flag_at_call' = cancelled
    /\ UNCHANGED <<sets_vars, probe, adf, bdds, cancelled, to_merge, outcome,
                   model_set>>

\* Cancelled: the operation unwinds and its partial BDDs are dropped.
ReturnCancelled ==
    /\ outcome' = "cancelled"
    /\ pc' = "returned"
    /\ constraints' = <<>>
    /\ to_merge' = <<>>
    /\ UNCHANGED <<sets_vars, probe, adf, bdds, cancelled, call, idx,
                   model_set, flag_at_call>>

\* A loop iteration that checks the flag for statements with a condition
\* only.
TwoValuedLoopStepNoCheckWhenFree ==
    /\ pc = "loop"
    /\ call = "complete_two_valued"
    /\ idx <= Len(MapStatements(bdds[1].direct_encoding.var_map))
    /\ LET direct == bdds[1].direct_encoding
           statement == MapStatements(direct.var_map)[idx]
       IN  IF cancelled /\ statement \in DOMAIN direct.conditions
           THEN ReturnCancelled
           ELSE /\ idx' = idx + 1
                /\ constraints' =
                      IF statement \in DOMAIN direct.conditions
                      THEN Append(constraints,
                                  FixedPointConstraint(direct, statement))
                      ELSE constraints
                /\ UNCHANGED <<sets_vars, probe, adf, bdds, cancelled, call,
                               pc, to_merge, outcome, model_set,
                               flag_at_call>>

\* One iteration of the statement loop of solve_complete_two_valued.
TwoValuedLoopStep ==
    /\ pc = "loop"
    /\ call = "complete_two_valued"
    /\ idx <= Len(MapStatements(bdds[1].direct_encoding.var_map))
    /\ LET direct == bdds[1].direct_encoding
           statement == MapStatements(direct.var_map)[idx]
       IN  IF cancelled
           THEN ReturnCancelled
           ELSE /\ idx' = idx + 1
                /\ constraints' =
                      IF statement \in DOMAIN direct.conditions
                      THEN Append(constraints,
                                  FixedPointConstraint(direct, statement))
                      ELSE constraints
                /\ UNCHANGED <<sets_vars, probe, adf, bdds, cancelled, call,
                               pc, to_merge, outcome, model_set,
                               flag_at_call>>

\* One iteration of the statement loop of solve_admissible.
AdmissibleLoopStep ==
    /\ pc = "loop"
    /\ call = "admissible"
    /\ idx <= Len(MapStatements(bdds[1].dual_encoding.var_map))
    /\ LET dual == bdds[1].dual_encoding
           statement == MapStatements(dual.var_map)[idx]
       IN  IF cancelled
           THEN ReturnCancelled
           ELSE /\ idx' = idx + 1
                /\ constraints' =
                      IF statement \in DOMAIN dual.conditions
                      THEN constraints \o TrapConstraints(dual, statement)
                      ELSE constraints
                /\ UNCHANGED <<sets_vars, probe, adf, bdds, cancelled, call,
                               pc, to_merge, outcome, model_set,
                               flag_at_call>>

\* The loop is over: the constraints are handed to solve_conjunction.
CallSolveConjunction ==
    /\ pc = "loop"
    /\ idx > Cardinality(adf.statements)
    /\ to_merge' = constraints
    /\ pc' = "conjunction"
    /\ UNCHANGED <<sets_vars, probe, adf, bdds, cancelled, call, idx,
                   constraints, outcome, model_set, flag_at_call>>

\* One reduction of the conjunction solver, then its cancellation check: the
\* reduced list is dropped when the check finds the flag set.
ConjunctionStep ==
    /\ pc = "conjunction"
    /\ Len(to_merge) > 1
    /\ IF cancelled
       THEN ReturnCancelled
       ELSE /\ to_merge' = NaiveGreedyReduce(to_merge)
            /\ UNCHANGED <<sets_vars, probe, adf, bdds, cancelled, call, pc,
                           idx, constraints, outcome, model_set,
                           flag_at_call>>

\* What solve_conjunction returns once at most one BDD is left.
ConjunctionResult(work) == IF Len(work) = 0 THEN BddTrue ELSE work[1]

\* solve_conjunction returns and the BDD is wrapped into the model set.
ReturnModelSet ==
    /\ pc = "conjunction"
    /\ Len(to_merge) <= 1
    /\ model_set' =
          IF call = "complete_two_valued"
          THEN mk_two_valued_set(ConjunctionResult(to_merge), 1)
          ELSE mk_three_valued_set(ConjunctionResult(to_merge), 1)
    /\ outcome' = IF model_set'.kind = "panic" THEN "panic" ELSE "ok"
    /\ pc' = "returned"
    /\ UNCHANGED <<sets_vars, probe, adf, bdds, cancelled, call, idx,
                   constraints, to_merge, flag_at_call>>

Init ==
    /\ adf \in Adfs
    /\ bdds = <<SymbolicAdfFrom(adf)>>
    /\ cancelled \in BOOLEAN
    /\ SolverIdle
    /\ SetsIdle
    /\ probe = NoProbe

Next ==
    \/ SetCancelled
    \/ CallSolveCompleteTwoValued
    \/ CallSolveAdmissible
    \/ TwoValuedLoopStep
    \/ AdmissibleLoopStep
    \/ CallSolveConjunction
    \/ ConjunctionStep
    \/ ReturnModelSet

Spec == Init /\ [][Next]_vars

(*********************** one operation after another ***********************)

\* The caller keeps the set solve_complete_two_valued returned and the
\* solver is ready for the next call.
KeepResult ==
    /\ pc = "returned"
    /\ call = "complete_two_valued"
    /\ outcome = "ok"
    /\ set_a = NoSet
    /\ set_a' = model_set
    /\ call' = "none"
    /\ pc' = "idle"
    /\ idx' = 0
    /\ constraints' = <<>>
    /\ to_merge' = <<>>
    /\ outcome' = "none"
    /\ model_set' = NoSet
    /\ flag_at_call' = FALSE
    /\ UNCHANGED <<adf, bdds, cancelled, probe, set_b, set_op, set_status,
                   set_r, set_count>>

\* Calls that nobody cancels.
TwoCallsInit ==
    /\ adf \in Adfs
    /\ bdds = <<SymbolicAdfFrom(adf)>>
    /\ cancelled = FALSE
    /\ SolverIdle
    /\ SetsIdle
    /\ probe = NoProbe

TwoCallsNext ==
    \/ CallSolveCompleteTwoValued
    \/ CallSolveAdmissible
    \/ TwoValuedLoopStep
    \/ AdmissibleLoopStep
    \/ CallSolveConjunction
    \/ ConjunctionStep
    \/ ReturnModelSet
    \/ KeepResult

SpecTwoCalls == TwoCallsInit /\ [][TwoCallsNext]_vars

(********************** the model-set operations ***************************)

\* An ADF of n free statements.
FreeAdf(n) ==
    [statements |-> 0..(n - 1), condition |-> [s \in 0..(n - 1) |-> Free]]

\* The direct variables of an encoding instance.
DirectVariables(id) ==
    {bdds[id].direct_encoding.var_map[s] :
        s \in DOMAIN bdds[id].direct_encoding.var_map}

\* The symbolic sets the first operand is drawn from: every set of
\* valuations of a small encoding; of a larger one the empty set, the full
\* set, a literal and the singleton of the all-false valuation.
SymbolicSets(V) ==
    IF Cardinality(V) <= MaxStatements
    THEN {Reduced(V, S) : S \in SUBSET (SUBSET V)}
    ELSE {BddFalse, BddTrue, Reduced(V, {{}}),
          BddLiteral(CHOOSE v \in V : \A u \in V : v <= u, TRUE)}

\* Those of at most MaxOperandModels models.
SmallSymbolicSets(V) ==
    {b \in SymbolicSets(V) : Cardinality(Expand(b, V)) <= MaxOperandModels}

\* Two AdfBdds instances are built from the same ADF; set_a is a set of the
\* first, set_b a small set of the first or the set of the second that has
\* the BDD of set_a.
SetsInit ==
    /\ adf \in {FreeAdf(n) : n \in 0..MaxCountedStatements}
    /\ bdds = <<SymbolicAdfFrom(adf), SymbolicAdfFrom(adf)>>
    /\ cancelled = FALSE
    /\ SolverIdle
    /\ set_a \in {mk_two_valued_set(b, 1) :
                    b \in SymbolicSets(DirectVariables(1))}
    /\ set_b \in {mk_two_valued_set(b, 1) :
                    b \in SmallSymbolicSets(DirectVariables(1))}
                 \cup {mk_two_valued_set(set_a.symbolic_set, 2)}
    /\ set_op = NoOp
    /\ set_status = "none"
    /\ set_r = NoSet
    /\ set_count = 0
    /\ probe = NoProbe

\* A binary operation on (left, right) has returned out.
Returned(name, left, right, out) ==
    /\ set_status = "none"
    /\ set_op' = [name |-> name, left |-> left, right |-> right, k |-> 0]
    /\ set_status' =
          IF out.kind = "encoding_mismatch" THEN "encoding_mismatch" ELSE "ok"
    /\ set_r' = IF out.kind = "encoding_mismatch" THEN NoSet ELSE out
    /\ UNCHANGED <<adf, bdds, solver_vars, probe, set_a, set_b, set_count>>

Intersect ==
    \E left \in {set_a, set_b}, right \in {set_a, set_b} :
        Returned("intersect", left, right, intersect(left, right))

Union ==
    \E left \in {set_a, set_b}, right \in {set_a, set_b} :
        Returned("union", left, right, union(left, right))

Minus ==
    \E left \in {set_a, set_b}, right \in {set_a, set_b} :
        Returned("minus", left, right, minus(left, right))

ExtendWithMoreOnes ==
    \E self \in {set_a, set_b} :
        Returned("extend_with_more_ones", self, NoSet,
                 extend_with_more_ones(self))

MkExactlyKOneStatements ==
    \E one_count \in 0..(Cardinality(adf.statements) + 1) :
        /\ set_status = "none"
        /\ set_op' = [name |-> "mk_exactly_k_one_statements",
                      left |-> NoSet, right |-> NoSet, k |-> one_count]
        /\ set_status' = "ok"
        /\ set_r' = mk_exactly_k_one_statements(one_count, 1)
        /\ UNCHANGED <<adf, bdds, solver_vars, probe, set_a, set_b, set_count>>

ModelCount ==
    \E self \in {set_a, set_b} :
        /\ set_status = "none"
        /\ set_op' = [name |-> "model_count", left |-> self,
                      right |-> NoSet, k |-> 0]
        /\ set_status' = "ok"
        /\ set_count' = model_count(self)
        /\ UNCHANGED <<adf, bdds, solver_vars, probe, set_a, set_b, set_r>>

SetsNext ==
    \/ Intersect
    \/ Union
    \/ Minus
    \/ ExtendWithMoreOnes
    \/ MkExactlyKOneStatements
    \/ ModelCount

SpecSets == SetsInit /\ [][SetsNext]_vars

(****************** sequences of model-set operations **********************)

\* The BDDs ModelSetTwoValued::new is called with: over direct variables,
\* over dual variables and over both.
NewSymbolicSets ==
    LET direct == DirectVariables(1)
        dual == DualVariables(bdds[1].dual_encoding.var_map)
    IN  {BddTrue}
        \cup {BddLiteral(v, TRUE) : v \in direct \cup dual}
        \cup {BddAnd(BddLiteral(bdds[1].direct_encoding.var_map[s], TRUE),
                     BddLiteral(bdds[1].dual_encoding.var_map[s][1], FALSE)) :
                s \in adf.statements}

\* ModelSetTwoValued::new on the encoding of the first instance.
New ==
    \E symbolic_set \in NewSymbolicSets :
        LET out == ModelSetTwoValuedNew(symbolic_set, 1)
        IN  /\ set_status = "none"
            /\ set_op' = [name |-> "new",
                          left |-> [symbolic_set |-> symbolic_set,
                                    encoding |-> 1, kind |-> "parts"],
                          right |-> NoSet, k |-> 0]
            /\ set_status' = IF out.kind = "panic" THEN "panic" ELSE "ok"
            /\ set_r' = IF out.kind = "panic" THEN NoSet ELSE out
            /\ UNCHANGED <<adf, bdds, solver_vars, probe, set_a, set_b,
                           set_count>>

\* The set an operation returned is the operand of the operations that
\* follow.
Reuse ==
    /\ set_status = "ok"
    /\ set_r.kind = "two_valued"
    /\ set_a' = set_r
    /\ set_op' = NoOp
    /\ set_status' = "none"
    /\ set_r' = NoSet
    /\ UNCHANGED <<adf, bdds, solver_vars, probe, set_b, set_count>>

SequencesNext ==
    \/ Intersect
    \/ Union
    \/ Minus
    \/ ExtendWithMoreOnes
    \/ MkExactlyKOneStatements
    \/ New
    \/ Reuse

SpecSetSequences == SetsInit /\ [][SequencesNext]_vars

(************************ the encodings, evaluated **************************)

\* The expressions with one more operator above the expressions of inner:
\* a negation, and every connective with statement s as the other operand,
\* And and Or with two and with three operands.
Above(inner, s) ==
    {Negation(e) : e \in inner}
    \cup UNION {{And(<<e, StatementRef(s)>>),
                 Or(<<StatementRef(s), e>>),
                 And(<<StatementRef(s), e, Constant(TRUE)>>),
                 Or(<<e, StatementRef(s), Constant(FALSE)>>),
                 Implication(e, StatementRef(s)),
                 Implication(StatementRef(s), e),
                 Equivalence(e, StatementRef(s)),
                 ExclusiveOr(StatementRef(s), e)} : e \in inner}

\* The expressions over the statements 0..(n - 1) of nesting depth d
\* exactly; the statement an operator of depth d adds goes round the
\* statements.
RECURSIVE NestedAt(_, _)
NestedAt(n, d) ==
    IF d = 0
    THEN {Constant(TRUE), Constant(FALSE)}
         \cup {StatementRef(s) : s \in 0..(n - 1)}
    ELSE Above(NestedAt(n, d - 1), (d - 1) % n)
         \cup (IF d = 1 THEN {And(<<>>), Or(<<>>)} ELSE {})

\* The ADFs whose first statement has a condition of depth up to MaxDepth
\* and whose other statements are free.
NestedAdfs ==
    UNION {{[statements |-> 0..(n - 1),
             condition |-> [s \in 0..(n - 1) |-> IF s = 0 THEN e ELSE Free]] :
                e \in UNION {NestedAt(n, d) : d \in 0..MaxDepth}} :
           n \in 1..MaxStatements}

\* The valuation of the direct variables of a two-valued assignment.
DirectValuation(direct_map, alpha) == {direct_map[s] : s \in alpha}

\* The direct BDD of a statement's condition is evaluated over every full
\* two-valued assignment.
EvalDirect ==
    \E s \in DOMAIN bdds[1].direct_encoding.conditions :
        /\ probe = NoProbe
        /\ probe' =
              [name |-> "direct", statement |-> s,
               models |->
                  {alpha \in SUBSET adf.statements :
                      BddEval(bdds[1].direct_encoding.conditions[s],
                              DirectValuation(bdds[1].direct_encoding.var_map,
                                              alpha))}]
        /\ UNCHANGED <<adf, bdds, solver_vars, sets_vars>>

\* The dual valuations that satisfy a BDD over the dual variables.
DualModels(bdd) ==
    {v \in SUBSET DualVariables(bdds[1].dual_encoding.var_map) :
        BddEval(bdd, v)}

\* can_be_true of a statement's condition is evaluated over every dual
\* valuation.
EvalCanBeTrue ==
    \E s \in DOMAIN bdds[1].dual_encoding.conditions :
        /\ probe = NoProbe
        /\ probe' =
              [name |-> "can_be_true", statement |-> s,
               models |-> DualModels(bdds[1].dual_encoding.conditions[s][1])]
        /\ UNCHANGED <<adf, bdds, solver_vars, sets_vars>>

\* can_be_false likewise.
EvalCanBeFalse ==
    \E s \in DOMAIN bdds[1].dual_encoding.conditions :
        /\ probe = NoProbe
        /\ probe' =
              [name |-> "can_be_false", statement |-> s,
               models |-> DualModels(bdds[1].dual_encoding.conditions[s][2])]
        /\ UNCHANGED <<adf, bdds, solver_vars, sets_vars>>

\* DualEncoding::count_dual_valuations: the three-valued interpretations
\* (T, F or both bits of every statement) that satisfy the diagram.
CountDualValuations(encoding, bdd) ==
    Cardinality({v \in Interpretations(encoding.var_map) : BddEval(bdd, v)})

\* The dual valuations of can_be_true OR can_be_false of a statement are
\* counted.
CountEither ==
    \E s \in DOMAIN bdds[1].dual_encoding.conditions :
        LET dual == bdds[1].dual_encoding
            either == BddOr(dual.conditions[s][1], dual.conditions[s][2])
        IN  /\ probe = NoProbe
            /\ probe' = [name |-> "count_either", statement |-> s,
                         models |-> DualModels(either)]
            /\ set_count' = CountDualValuations(dual, either)
            /\ UNCHANGED <<adf, bdds, solver_vars, set_a, set_b, set_op,
                           set_status, set_r>>

\* The dual valuations of the validity BDD are counted.
CountValid ==
    /\ probe = NoProbe
    /\ probe' = [name |-> "count_valid", statement |-> 0,
                 models |-> DualModels(bdds[1].dual_encoding.valid)]
    /\ set_count' = CountDualValuations(bdds[1].dual_encoding,
                                        bdds[1].dual_encoding.valid)
    /\ UNCHANGED <<adf, bdds, solver_vars, set_a, set_b, set_op, set_status,
                   set_r>>

EncodingInit ==
    /\ adf \in Adfs \cup NestedAdfs
    /\ bdds = <<SymbolicAdfFrom(adf)>>
    /\ cancelled = FALSE
    /\ SolverIdle
    /\ SetsIdle
    /\ probe = NoProbe

EncodingNext ==
    \/ EvalDirect
    \/ EvalCanBeTrue
    \/ EvalCanBeFalse
    \/ CountEither
    \/ CountValid

SpecEncoding == EncodingInit /\ [][EncodingNext]_vars

(*********************** the variable maps, built **************************)

\* Statement indices that fit in 32 bits: small ones, the largest one below
\* 2^29, and 2^30 and its successor, whose two high bits the shift drops.
StatementIndices == {0, 1, 2, TwoPow29 - 1, TwoPow30, TwoPow30 + 1}

\* Nothing is encoded yet: the ADFs are sets of free statements.
MapsInit ==
    /\ adf \in {[statements |-> S, condition |-> [s \in S |-> Free]] :
                  S \in {X \in SUBSET StatementIndices :
                            Cardinality(X) <= MaxMapStatements}}
    /\ bdds = <<>>
    /\ cancelled = FALSE
    /\ SolverIdle
    /\ SetsIdle
    /\ probe = NoProbe

\* DirectMap::new on the statements of the ADF; the map is kept as the set of
\* its (statement, variable id) pairs.
BuildDirectMap ==
    /\ probe = NoProbe
    /\ probe' =
          [name |-> "direct_map", statement |-> 0,
           models |-> {<<s, DirectMapNew(adf.statements)[s]>> :
                          s \in adf.statements}]
    /\ UNCHANGED <<adf, bdds, solver_vars, sets_vars>>

\* DualMap::new: the (statement, positive id, negative id) triples.
BuildDualMap ==
    /\ probe = NoProbe
    /\ probe' =
          [name |-> "dual_map", statement |-> 0,
           models |-> {<<s, DualMapNew(adf.statements)[s][1],
                         DualMapNew(adf.statements)[s][2]>> :
                          s \in adf.statements}]
    /\ UNCHANGED <<adf, bdds, solver_vars, sets_vars>>

MapsNext ==
    \/ BuildDirectMap
    \/ BuildDualMap

SpecMaps == MapsInit /\ [][MapsNext]_vars

(************************ what the claims speak of *************************)

\* The number of statements of the ADF.
StatementCount == Cardinality(adf.statements)

\* The two-valued assignments (the set of the true statements) of a model set.
TwoValuedModels(set) ==
    LET var_map == bdds[set.encoding].direct_encoding.var_map
    IN  {alpha \in SUBSET (DOMAIN var_map) :
            BddEval(set.symbolic_set, {var_map[s] : s \in alpha})}

\* The dual valuations (the set of the dual variables that are set) of a
\* three-valued model set.
ThreeValuedModels(set) ==
    {v \in SUBSET DualVariables(bdds[set.encoding].dual_encoding.var_map) :
        BddEval(set.symbolic_set, v)}

\* The assignments under which every statement with a condition has the value
\* of its condition.
FixedPoints(a) ==
    {alpha \in SUBSET a.statements :
        \A s \in Conditional(a) :
            (s \in alpha) = evaluate(a.condition[s], alpha)}

\* Whether statement s occurs in an expression.
RECURSIVE Mentions(_, _)
Mentions(e, s) ==
    \/ e.op = "statement" /\ e.val = s
    \/ \E k \in 1..Len(e.args) : Mentions(e.args[k], s)

\* The free statements that no condition mentions.
Unmentioned(a) ==
    {s \in a.statements \ Conditional(a) :
        \A u \in Conditional(a) : ~Mentions(a.condition[u], s)}

Flip(alpha, s) == (alpha \ {s}) \cup ({s} \ alpha)

ReturnedOk(operation) ==
    pc = "returned" /\ call = operation /\ outcome = "ok"

\* The conjunction of a list of BDDs, as a function.
ConjunctionOf(list) ==
    LET V == UNION {list[k].sup : k \in DOMAIN list}
    IN  Reduced(V, {x \in SUBSET V :
                      \A k \in DOMAIN list : BddEval(list[k], x)})

\* The dual valuations the admissible constraints allow.
Admissible(dual) ==
    {v \in SUBSET DualVariables(dual.var_map) :
        /\ \A s \in DOMAIN dual.var_map :
              dual.var_map[s][1] \in v \/ dual.var_map[s][2] \in v
        /\ \A s \in DOMAIN dual.conditions :
              /\ BddEval(dual.conditions[s][1], v) => dual.var_map[s][1] \in v
              /\ BddEval(dual.conditions[s][2], v) => dual.var_map[s][2] \in v}

\* The two-valued assignments a dual valuation v leaves open: statement j
\* is true only where t_j is set and false only where f_j is set.
Completions(dual_map, v) ==
    {gamma \in SUBSET (DOMAIN dual_map) :
        \A j \in DOMAIN dual_map :
            /\ j \in gamma => dual_map[j][1] \in v
            /\ j \notin gamma => dual_map[j][2] \in v}

\* The interpretations that commit some undefined statements of alpha to T or
\* to F, a statement with a condition only to the value its condition has
\* under every assignment the refined interpretation leaves open.
Refinements(a, dual_map, alpha) ==
    {beta \in Interpretations(dual_map) :
        /\ beta \subseteq alpha
        /\ \A s \in Conditional(a) :
              ValueIn(dual_map, beta, s) # ValueIn(dual_map, alpha, s) =>
                  \A gamma \in Completions(dual_map, beta) :
                      evaluate(a.condition[s], gamma)
                          = (dual_map[s][1] \in beta)}

\* The orders in which the statements of S can be taken.
Orders(S) ==
    {p \in [1..Cardinality(S) -> S] :
        \A i, j \in DOMAIN p : i # j => p[i] # p[j]}

\* What C15 says of the dual BDD of the condition of probe.statement, built
\* from the direct BDD function for the truth value wanted.
DualAsClaimed(dual_bdd, function, wanted) ==
    LET direct_map == bdds[1].direct_encoding.var_map
        dual_map == bdds[1].dual_encoding.var_map
    IN  /\ dual_bdd.sup \subseteq DualVariables(dual_map)
        /\ dual_bdd.sup \cap DirectVariables(1) = {}
        /\ probe.models
              = {v \in SUBSET DualVariables(dual_map) :
                    \E gamma \in Completions(dual_map, v) :
                        evaluate(adf.condition[probe.statement], gamma)
                            = wanted}
        /\ \A order \in Orders(adf.statements) :
              DualLoop(function, order, Len(order), direct_map, dual_map)
                  = dual_bdd

\* The number of constraints the loop of the operation in progress has
\* generated once it is at the k-th statement: one (two) for every statement
\* with a condition before it, after the validity BDD of solve_admissible.
GeneratedBefore(k) ==
    LET statements == SortedSeq(adf.statements)
        before == {j \in 1..(k - 1) : statements[j] \in Conditional(adf)}
    IN  IF call = "admissible"
        THEN 1 + 2 * Cardinality(before)
        ELSE Cardinality(before)

\* The loop was left at the check of a statement.
CancelledInLoop ==
    pc = "returned" /\ outcome = "cancelled" /\ idx <= StatementCount

\* The dual valuation of a two-valued assignment: t where the statement is
\* true, f where it is false.
TwoValuedAsDual(dual_map, gamma) ==
    {dual_map[s][1] : s \in gamma}
        \cup {dual_map[s][2] : s \in (DOMAIN dual_map) \ gamma}

\* s(0). ac(0,c(v)).
AdfConstantTrue ==
    [statements |-> {0}, condition |-> (0 :> Constant(TRUE))]

\* s(0). s(1). ac(0,c(v)).
AdfWithFreeStatement ==
    [statements |-> {0, 1},
     condition |-> (0 :> Constant(TRUE) @@ 1 :> Free)]

\* s(0). s(1). ac(0,1). ac(1,c(v)).
AdfChained ==
    [statements |-> {0, 1},
     condition |-> (0 :> StatementRef(1) @@ 1 :> Constant(TRUE))]

\* The assignments that set every statement that some model of models sets.
UpwardClosure(models) ==
    {beta \in SUBSET adf.statements :
        \E alpha \in models : alpha \subseteq beta}

\* The binomial coefficient.
RECURSIVE Binomial(_, _)
Binomial(n, k) ==
    IF k = 0 THEN 1
    ELSE IF n = 0 THEN 0
    ELSE Binomial(n - 1, k - 1) + Binomial(n - 1, k)

\* An operation of the model sets has returned a set.
SetReturned(name) == set_op.name = name /\ set_status = "ok"

(******************************** claims ***********************************)

\* C1 as stated: the result of solve_complete_two_valued is the set of the
\* fixed points of the conditions, and both values of every free statement
\* occur in it (read in the claim's favour: in a result that is not empty).
C1_AsStated ==
    ReturnedOk("complete_two_valued") =>
        /\ TwoValuedModels(model_set) = FixedPoints(adf)
        /\ TwoValuedModels(model_set) # {} =>
              \A s \in adf.statements \ Conditional(adf) :
                  /\ \E alpha \in TwoValuedModels(model_set) : s \in alpha
                  /\ \E alpha \in TwoValuedModels(model_set) : s \notin alpha

\* C1, amended: the result of solve_complete_two_valued is the set of the
\* fixed points of the conditions; a free statement adds no constraint of its
\* own, so the result is closed under flipping a free statement that no
\* condition mentions.
C1_FixedPoints ==
    ReturnedOk("complete_two_valued") =>
        /\ TwoValuedModels(model_set) = FixedPoints(adf)
        /\ \A s \in Unmentioned(adf) :
              \A alpha \in TwoValuedModels(model_set) :
                  Flip(alpha, s) \in TwoValuedModels(model_set)

\* A solved ADF with a condition, an unmentioned free statement and a model.
C1_Witness ==
    /\ ReturnedOk("complete_two_valued")
    /\ Conditional(adf) # {}
    /\ Unmentioned(adf) # {}
    /\ TwoValuedModels(model_set) # {}

\* C2: the result of solve_admissible is the set of the dual valuations in
\* which every statement has one of (t, f) set and every statement with a
\* condition has t set when can_be_true holds and f set when can_be_false
\* holds; the three example ADFs have 2, 6 and 3 such valuations.
C2_Admissible ==
    ReturnedOk("admissible") =>
        /\ ThreeValuedModels(model_set) = Admissible(bdds[1].dual_encoding)
        /\ adf = AdfConstantTrue =>
              Cardinality(ThreeValuedModels(model_set)) = 2
        /\ adf = AdfWithFreeStatement =>
              Cardinality(ThreeValuedModels(model_set)) = 6
        /\ adf = AdfChained =>
              Cardinality(ThreeValuedModels(model_set)) = 3

\* solve_admissible has returned the three interpretations of the chained ADF.
C2_Witness ==
    /\ ReturnedOk("admissible")
    /\ adf = AdfChained
    /\ Cardinality(ThreeValuedModels(model_set)) = 3

\* C3: a call made with the cancellation flag set returns Cancelled and no
\* model set, whatever the ADF.
C3_CancelledBeforeCall ==
    (pc = "returned" /\ flag_at_call) =>
        (outcome = "cancelled" /\ model_set = NoSet)

\* What C4 says of a state: the working list always denotes the conjunction
\* of the inputs, whichever pair is reduced next, and the BDD returned is
\* that conjunction (true for no input, the input itself for a single one).
C4_State ==
    /\ pc = "conjunction" =>
          /\ ConjunctionOf(to_merge) = ConjunctionOf(constraints)
          /\ \A i, j \in DOMAIN to_merge :
                i < j => ConjunctionOf(ReduceAt(to_merge, i, j))
                            = ConjunctionOf(constraints)
    /\ (pc = "returned" /\ outcome = "ok") =>
          /\ model_set.symbolic_set = ConjunctionOf(constraints)
          /\ Len(constraints) = 0 => model_set.symbolic_set = BddTrue
          /\ Len(constraints) = 1 => model_set.symbolic_set = constraints[1]

\* C4: the conjunction solver, when not cancelled, ends with one BDD that is
\* the conjunction of its inputs whatever pair each reduction takes; every
\* reduction shortens the working list by one; no input gives true and a
\* single input is returned as it is.
C4_ConjunctionSolver ==
    /\ []C4_State
    /\ [][(pc = "conjunction" /\ pc' = "conjunction")
            => Len(to_merge') = Len(to_merge) - 1]_<<pc, to_merge>>

\* A conjunction of at least three inputs was returned.
C4_Witness ==
    /\ pc = "returned"
    /\ outcome = "ok"
    /\ Len(constraints) >= 3

\* C5: over one encoding instance, intersect and union are commutative,
\* associative and idempotent, minus(A, A) is empty and union(A, minus(B, A))
\* is union(A, B); A and B are the two operands and C is the set an operation
\* returned.
C5_AlgebraLaws ==
    LET A == set_a
        B == set_b
        C == IF set_r.encoding = set_a.encoding THEN set_r ELSE set_a
    IN  /\ SetReturned("intersect") =>
              TwoValuedModels(set_r) = TwoValuedModels(set_op.left)
                                          \cap TwoValuedModels(set_op.right)
        /\ SetReturned("union") =>
              TwoValuedModels(set_r) = TwoValuedModels(set_op.left)
                                          \cup TwoValuedModels(set_op.right)
        /\ A.encoding = B.encoding =>
              /\ intersect(A, B) = intersect(B, A)
              /\ union(A, B) = union(B, A)
              /\ intersect(intersect(A, B), C) = intersect(A, intersect(B, C))
              /\ union(union(A, B), C) = union(A, union(B, C))
              /\ intersect(A, A) = A /\ intersect(B, B) = B
              /\ union(A, A) = A /\ union(B, B) = B
              /\ is_empty(minus(A, A)) /\ is_empty(minus(B, B))
              /\ union(A, minus(B, A)) = union(A, B)
              /\ union(B, minus(A, B)) = union(B, A)

\* Two sets of one instance, neither within the other, were intersected and
\* the third set differs from both.
C5_Witness ==
    /\ SetReturned("intersect")
    /\ set_op.left = set_a /\ set_op.right = set_b
    /\ set_a.encoding = set_b.encoding
    /\ ~is_empty(minus(set_a, set_b))
    /\ ~is_empty(minus(set_b, set_a))
    /\ ~is_empty(set_r)

\* C6: intersect, union and minus return a set exactly when both operands
\* reference the same encoding instance; operands of different instances,
\* even of instances built from the same ADF, fail and leave no set.
C6_SameInstanceOnly ==
    set_op.name \in {"intersect", "union", "minus"} =>
        /\ set_status = "ok" <=> set_op.left.encoding = set_op.right.encoding
        /\ set_op.left.encoding # set_op.right.encoding =>
              set_status = "encoding_mismatch" /\ set_r = NoSet
        /\ set_status = "ok" => set_r.encoding = set_op.left.encoding

\* Two equal sets of two equal encoding instances were intersected.
C6_Witness ==
    /\ set_op.name = "intersect"
    /\ set_status = "encoding_mismatch"
    /\ bdds[set_op.left.encoding] = bdds[set_op.right.encoding]
    /\ set_op.left.symbolic_set = set_op.right.symbolic_set
    /\ StatementCount >= 1

\* C7: extend_with_more_ones(A) is the upward closure of A; the singleton of
\* the all-false assignment of 3 statements extends to all 8 assignments.
C7_UpwardClosure ==
    SetReturned("extend_with_more_ones") =>
        /\ TwoValuedModels(set_r) = UpwardClosure(TwoValuedModels(set_op.left))
        /\ (StatementCount = 3 /\ TwoValuedModels(set_op.left) = {{}}) =>
              Cardinality(TwoValuedModels(set_r)) = 8

\* The singleton of the all-false assignment of 3 statements was extended.
C7_Witness ==
    /\ SetReturned("extend_with_more_ones")
    /\ StatementCount = 3
    /\ TwoValuedModels(set_op.left) = {{}}
    /\ Cardinality(TwoValuedModels(set_r)) = 8

\* C8: extend_with_more_ones is idempotent, and monotone over one encoding.
C8_IdempotentMonotone ==
    /\ SetReturned("extend_with_more_ones") =>
          extend_with_more_ones(set_r) = set_r
    /\ (/\ SetReturned("extend_with_more_ones")
        /\ set_op.left = set_a
        /\ set_b.encoding = set_a.encoding) =>
          /\ is_empty(minus(set_b, set_a)) =>
                is_empty(minus(extend_with_more_ones(set_b), set_r))
          /\ is_empty(minus(set_a, set_b)) =>
                is_empty(minus(set_r, extend_with_more_ones(set_b)))

\* A set with a non-empty proper subset at hand was extended, the extension
\* added models, and the extension of the subset is a proper subset of it.
C8_Witness ==
    /\ SetReturned("extend_with_more_ones")
    /\ set_op.left = set_a
    /\ set_r # set_a
    /\ set_a.encoding = set_b.encoding
    /\ ~is_empty(set_b)
    /\ is_empty(minus(set_b, set_a))
    /\ extend_with_more_ones(set_b) # set_r

\* C9: the models of mk_exactly_k_one_statements(k) are the assignments with
\* exactly k ones, so that it counts C(n, k) models: none for k > n, 10 for
\* n = 5 and k = 2.
C9_ExactlyK ==
    SetReturned("mk_exactly_k_one_statements") =>
        /\ TwoValuedModels(set_r)
              = {alpha \in SUBSET adf.statements :
                    Cardinality(alpha) = set_op.k}
        /\ model_count(set_r) = Binomial(StatementCount, set_op.k)
        /\ set_op.k > StatementCount => model_count(set_r) = 0
        /\ (StatementCount = 5 /\ set_op.k = 2) => model_count(set_r) = 10

\* The assignments of 5 statements with 2 ones were built.
C9_Witness ==
    /\ SetReturned("mk_exactly_k_one_statements")
    /\ StatementCount = 5
    /\ set_op.k = 2
    /\ model_count(set_r) = 10

\* C10: model_count is the number of the assignments to all n statements
\* that satisfy the BDD: 2^n for true, 0 for false, 2^(n-1) for a literal,
\* and the same for a clone.
C10_ModelCount ==
    /\ SetReturned("model_count") =>
          /\ set_count = Cardinality(TwoValuedModels(set_op.left))
          /\ model_count(Clone(set_op.left)) = set_count
          /\ set_op.left.symbolic_set = BddTrue => set_count = 2^StatementCount
          /\ set_op.left.symbolic_set = BddFalse => set_count = 0
          /\ (\E v \in DirectVariables(1), value \in BOOLEAN :
                  set_op.left.symbolic_set = BddLiteral(v, value)) =>
                set_count = 2^(StatementCount - 1)

\* A literal of an encoding of more than MaxStatements statements was
\* counted.
C10_Witness ==
    /\ SetReturned("model_count")
    /\ StatementCount > 2
    /\ Cardinality(set_op.left.symbolic_set.sup) = 1
    /\ set_count = 2^(StatementCount - 1)

\* C11: for every statement with a condition and every full two-valued
\* assignment, the direct BDD built by expression_to_bdd has the value of the
\* condition, whatever the variants and the nesting of the expression.
C11_EncodingRoundTrip ==
    probe.name = "direct" =>
        probe.models
            = {alpha \in SUBSET adf.statements :
                  evaluate(adf.condition[probe.statement], alpha)}

\* The BDD of a condition of depth MaxDepth with an implication or a
\* three-operand connective at its root, true under some assignments and
\* false under others, was evaluated.
C11_Witness ==
    /\ probe.name = "direct"
    /\ adf.condition[probe.statement] \in NestedAt(StatementCount, MaxDepth)
    /\ \/ adf.condition[probe.statement].op = "implication"
       \/ Len(adf.condition[probe.statement].args) = 3
    /\ probe.models # {}
    /\ probe.models # SUBSET adf.statements

\* C12: the result of solve_admissible is closed under refinement: with an
\* interpretation it holds every interpretation that commits some of its
\* undefined statements to values consistent with their conditions.
C12_RefinementClosed ==
    ReturnedOk("admissible") =>
        \A alpha \in ThreeValuedModels(model_set) :
            Refinements(adf, bdds[1].dual_encoding.var_map, alpha)
                \subseteq ThreeValuedModels(model_set)

\* solve_admissible returned an interpretation with a refinement that
\* commits a statement with a condition and a free statement.
C12_Witness ==
    /\ ReturnedOk("admissible")
    /\ LET dual_map == bdds[1].dual_encoding.var_map
       IN  \E alpha \in ThreeValuedModels(model_set) :
               \E beta \in Refinements(adf, dual_map, alpha) :
                   /\ \E s \in Conditional(adf) :
                         ValueIn(dual_map, beta, s)
                             # ValueIn(dual_map, alpha, s)
                   /\ \E s \in adf.statements \ Conditional(adf) :
                         ValueIn(dual_map, beta, s)
                             # ValueIn(dual_map, alpha, s)

\* C13: every model set reached by a sequence of new, intersect, union,
\* minus, mk_exactly_k_one_statements and extend_with_more_ones mentions
\* direct variables of its encoding only and references the encoding
\* instance of the operands it was computed from.
C13_DirectEncoded ==
    /\ \A set \in {set_a, set_b, set_r} :
          set.kind # "none" =>
              /\ set.kind = "two_valued"
              /\ IsDirectEncoded(bdds[set.encoding].direct_encoding,
                                 set.symbolic_set)
    /\ (set_status = "ok"
            /\ set_op.name \in {"intersect", "union", "minus"}) =>
          /\ set_r.encoding = set_op.left.encoding
          /\ set_r.encoding = set_op.right.encoding
    /\ SetReturned("extend_with_more_ones") =>
          set_r.encoding = set_op.left.encoding
    /\ set_op.name = "mk_exactly_k_one_statements" =>
          set_status = "ok" /\ set_r.kind = "two_valued"
              /\ set_r.encoding = 1
    /\ set_op.name = "new" =>
          /\ set_status = "ok" <=>
                IsDirectEncoded(bdds[1].direct_encoding,
                                set_op.left.symbolic_set)
          /\ set_status = "ok" =>
                /\ set_r.symbolic_set = set_op.left.symbolic_set
                /\ set_r.encoding = 1
          /\ set_status = "panic" => set_r = NoSet

\* A set that an earlier operation returned was extended to a set that
\* depends on every direct variable of three or more.
C13_Witness ==
    /\ SetReturned("extend_with_more_ones")
    /\ set_op.left = set_a
    /\ \A b \in SymbolicSets(DirectVariables(1)) : set_a.symbolic_set # b
    /\ StatementCount >= 3
    /\ set_r.symbolic_set.sup = DirectVariables(1)

\* C14: for statements whose indices fit in 32 bits, DirectMap and DualMap
\* are injective, the order of the variable ids agrees with the order of the
\* statements, the positive id of a statement precedes its negative id and
\* both follow its direct id, and no direct id is a dual id.
C14_MapsInjectiveOrdered ==
    /\ probe.name = "direct_map" =>
          \A x, y \in probe.models :
              /\ x[1] # y[1] => x[2] # y[2]
              /\ x[1] < y[1] => x[2] < y[2]
    /\ probe.name = "dual_map" =>
          /\ \A x, y \in probe.models :
                /\ x[1] # y[1] => {x[2], x[3]} \cap {y[2], y[3]} = {}
                /\ x[1] < y[1] => x[3] < y[2]
          /\ \A x \in probe.models :
                /\ x[2] < x[3]
                /\ DirectMapNew(adf.statements)[x[1]] < x[2]
          /\ \A x \in probe.models, s \in adf.statements :
                DirectMapNew(adf.statements)[s] \notin {x[2], x[3]}

\* C15: the dual BDDs of a condition mention no direct variable; can_be_true
\* (can_be_false) holds on a dual valuation exactly when the condition is
\* true (false) under some two-valued assignment that sets a statement only
\* where its t is set and clears it only where its f is set; and the order
\* in which the statements are eliminated does not matter.
C15_DualEncoding ==
    LET direct == bdds[1].direct_encoding
        dual == bdds[1].dual_encoding
    IN  /\ probe.name = "can_be_true" =>
              DualAsClaimed(dual.conditions[probe.statement][1],
                            direct.conditions[probe.statement], TRUE)
        /\ probe.name = "can_be_false" =>
              DualAsClaimed(dual.conditions[probe.statement][2],
                            BddNot(direct.conditions[probe.statement]), FALSE)

\* can_be_false of a condition of depth MaxDepth over more than one
\* statement was evaluated; it holds on some interpretation with an
\* undefined statement and fails on another.
C15_Witness ==
    /\ probe.name = "can_be_false"
    /\ StatementCount > 1
    /\ adf.condition[probe.statement] \in NestedAt(StatementCount, MaxDepth)
    /\ LET dual_map == bdds[1].dual_encoding.var_map
           undefined ==
               {v \in Interpretations(dual_map) :
                   \E s \in adf.statements :
                       Cardinality(ValueIn(dual_map, v, s)) = 2}
       IN  /\ probe.models \cap undefined # {}
           /\ undefined \ probe.models # {}

\* C16: the dual valuations of can_be_true OR can_be_false of a statement
\* with a condition number 3^n less those among them in which the statement
\* has neither t nor f set, so that every valid dual valuation is among
\* them; the validity BDD has 3^n models.
C16_DualConsistency ==
    LET dual_map == bdds[1].dual_encoding.var_map
    IN  /\ probe.name = "count_either" =>
              /\ set_count = Cardinality(probe.models)
              /\ set_count
                    = 3^StatementCount
                        - Cardinality(
                            {v \in probe.models :
                                ValueIn(dual_map, v, probe.statement) = {}})
              /\ Interpretations(dual_map) \subseteq probe.models
        /\ probe.name = "count_valid" =>
              /\ set_count = Cardinality(probe.models)
              /\ set_count = 3^StatementCount
              /\ probe.models = Interpretations(dual_map)

\* The valuations of can_be_true OR can_be_false of a condition that can be
\* true and can be false were counted for an ADF of more than one statement.
C16_Witness ==
    /\ probe.name = "count_either"
    /\ StatementCount > 1
    /\ set_count = 3^StatementCount
    /\ ~BddIsFalse(bdds[1].dual_encoding.conditions[probe.statement][1])
    /\ ~BddIsFalse(bdds[1].dual_encoding.conditions[probe.statement][2])

\* What C17 says of a state: in the loop the constraints are those of the
\* statements before the current one and the conjunction solver has not
\* been invoked; a cancelled call returns no model set.
C17_State ==
    /\ pc = "loop" =>
          /\ Len(constraints) = GeneratedBefore(idx)
          /\ to_merge = <<>>
    /\ (pc = "returned" /\ outcome = "cancelled") => model_set = NoSet
    /\ CancelledInLoop => to_merge = <<>>

\* What C17 says of a step taken at the k-th statement, free or not: with
\* the flag set the call returns Cancelled at that statement, without a
\* model set and without the conjunction solver; with the flag clear the
\* loop moves to the next statement (or the flag is set meanwhile).
C17_Step ==
    (pc = "loop" /\ idx <= StatementCount) =>
        IF cancelled
        THEN /\ pc' = "returned"
             /\ outcome' = "cancelled"
             /\ model_set' = NoSet
             /\ to_merge' = <<>>
             /\ idx' = idx
        ELSE \/ cancelled' /\ UNCHANGED <<pc, idx, constraints>>
             \/ /\ pc' = "loop"
                /\ idx' = idx + 1
                /\ Len(constraints') = GeneratedBefore(idx + 1)

\* C17: both operations check the cancellation flag once before the
\* constraint of every statement, in statement order, free statements too;
\* a flag found set at the k-th check ends the call with Cancelled, with no
\* constraint for that or a later statement, no call of the conjunction
\* solver and no model set.
C17_CheckedPerStatement ==
    /\ []C17_State
    /\ [][C17_Step]_vars

\* A call made with the flag clear was cancelled at the check of a free
\* statement that follows a statement with a condition.
C17_Witness ==
    /\ CancelledInLoop
    /\ ~flag_at_call
    /\ idx >= 2
    /\ SortedSeq(adf.statements)[idx] \notin Conditional(adf)
    /\ SortedSeq(adf.statements)[idx - 1] \in Conditional(adf)

\* C18: a dual valuation with exactly one of t, f set for every statement is
\* in the result of solve_admissible exactly when its two-valued assignment
\* is in the result of solve_complete_two_valued for the same ADF.
C18_TwoValuedAgree ==
    (ReturnedOk("admissible") /\ set_a.kind = "two_valued") =>
        \A gamma \in SUBSET adf.statements :
            TwoValuedAsDual(bdds[1].dual_encoding.var_map, gamma)
                    \in ThreeValuedModels(model_set)
                <=> gamma \in TwoValuedModels(set_a)

\* Both operations returned for an ADF in which every statement has a
\* condition, with some two-valued interpretations in the results, others
\* not, and an admissible interpretation that is not two-valued.
C18_Witness ==
    /\ ReturnedOk("admissible")
    /\ set_a.kind = "two_valued"
    /\ StatementCount > 1
    /\ Conditional(adf) = adf.statements
    /\ TwoValuedModels(set_a) # {}
    /\ TwoValuedModels(set_a) # SUBSET adf.statements
    /\ Cardinality(ThreeValuedModels(model_set))
          > Cardinality(TwoValuedModels(set_a))

====
